---- MODULE Spec2Model ----
(***************************************************************************)
(* Model of src/clmr/ser.rs: the encoder of a legacy ssb Message into the  *)
(* compact legacy message representation (clmr).                           *)
(*                                                                         *)
(*   to_clmr(msg, w)   writes flags, author, sequence, timestamp,          *)
(*                     previous (if any), content and signature into the   *)
(*                     writer w, leaving at the first error ("?").         *)
(*   to_clmr_vec(msg)  runs to_clmr on a fresh Vec and returns the Vec.    *)
(*                                                                         *)
(* A call is modelled field by field: one action per statement of to_clmr  *)
(* that touches the writer.  The writer is a byte sink that accepts a      *)
(* bounded (or unbounded) number of further bytes and then refuses: some   *)
(* number of times with ErrorKind::Interrupted, which write_all answers by *)
(* calling write again, and then either for good with its own io error or  *)
(* not at all any more.                                                    *)
(*   to_clmr_string(msg) runs to_clmr_vec and wraps the bytes in a String  *)
(*                     without checking that they are UTF-8.               *)
(*                                                                         *)
(* Numbers: TLC integers are 32 bits wide, so a u64 is held as four 16-bit *)
(* limbs, most significant limb first.                                     *)
(***************************************************************************)
EXTENDS Integers, Sequences, FiniteSets, TLC

VARIABLES
    call,    \* call[p]: the frame of process p's call (pc, arguments, locals, result)
    snk,     \* snk[i]: the writer i (bytes held, room left, its io error)
    entry,   \* entry[p]: the message and the writer as they were when p's call began
    endian   \* byte order of the build target ("little" or "big")

vars == <<call, snk, entry, endian>>

----------------------------------------------------------------------------
(* Bounds of the model.                                                    *)

\* Bytes of key, hash, signature and box material (32 or more in a real feed).
KeyLen == 2

\* Times in a row a writer refuses a write with ErrorKind::Interrupted.
MaxInterrupts == 2

Procs == {1, 2}

----------------------------------------------------------------------------
(* Bytes and 64-bit words.                                                 *)

RECURSIVE Concat(_)
Concat(ss) == IF ss = <<>> THEN <<>> ELSE Head(ss) \o Concat(Tail(ss))

Reverse(s) == [i \in 1..Len(s) |-> s[Len(s) + 1 - i]]

Take(s, n) == SubSeq(s, 1, IF n < Len(s) THEN n ELSE Len(s))

IsPrefix(s, t) == Len(s) <= Len(t) /\ SubSeq(t, 1, Len(s)) = s

\* The eight bytes of a u64 (four 16-bit limbs), most significant byte first.
BytesMSB(x) == Concat([i \in 1..4 |-> <<x[i] \div 256, x[i] % 256>>])

\* The u64 whose bytes, most significant first, are bs.
FromBytesMSB(bs) == [i \in 1..4 |-> bs[2 * i - 1] * 256 + bs[2 * i]]

\* u64::swap_bytes
SwapBytes(x) == FromBytesMSB(Reverse(BytesMSB(x)))

\* f64::to_bits: sign (1 bit), biased exponent (11 bits), fraction (52 bits,
\* held as a 4-bit limb and three 16-bit limbs).
ToBits(f) ==
    << (IF f.neg THEN 32768 ELSE 0) + f.exp * 16 + f.frac[1],
       f.frac[2], f.frac[3], f.frac[4] >>

\* Faulty variant of ToBe: the conversion to big-endian left out.
ToBeIdentity(x, target) == x

\* u64::to_be: the word whose in-memory bytes are the big-endian bytes of x
\* (a byte swap on a little-endian target, x itself on a big-endian one).

ToBe(x, target) == IF target = "little" THEN SwapBytes(x) ELSE x

\* std::mem::transmute::<u64, [u8; 8]>: the bytes of x in memory order.
Transmute(x, target) ==
    IF target = "little" THEN Reverse(BytesMSB(x)) ELSE BytesMSB(x)

\* lines 56-57: the eight bytes written for the timestamp
TimestampBytes(ts, target) == Transmute(ToBe(ToBits(ts), target), target)

----------------------------------------------------------------------------
(* The collaborators' encodings.                                           *)

\* to_compact of a key, hash, box or signature: a self-describing byte
\* string, here the value's type tag followed by its raw bytes.
ToCompact(v) == <<v.tag>> \o v.data

\* The big-endian bytes of n without leading zero bytes.
RECURSIVE MinimalBE(_)
MinimalBE(n) == IF n = 0 THEN <<>> ELSE Append(MinimalBE(n \div 256), n % 256)

\* varu64::encode: one byte up to 247, else 247 + k followed by k bytes.
Varu64(n) ==
    IF n < 248 THEN <<n>> ELSE <<247 + Len(MinimalBE(n))>> \o MinimalBE(n)

\* Bytes of one item of a plain content value, and whether it can be encoded
\* (a NaN is no legacy ssb value).
CborItem(it) ==
    CASE it = "true"  -> [bytes |-> <<245>>, ok |-> TRUE]
      [] it = "false" -> [bytes |-> <<244>>, ok |-> TRUE]
      [] it = "null"  -> [bytes |-> <<246>>, ok |-> TRUE]
      [] OTHER        -> [bytes |-> <<>>,    ok |-> FALSE]

\* The bytes the cbor serializer hands to its writer for the items, in
\* order, stopping at the first item it cannot encode.
RECURSIVE CborItems(_)
CborItems(items) ==
    IF items = <<>> THEN [bytes |-> <<>>, ok |-> TRUE]
    ELSE LET h == CborItem(Head(items))
             t == CborItems(Tail(items))
         IN  IF h.ok THEN [bytes |-> h.bytes \o t.bytes, ok |-> t.ok]
             ELSE [bytes |-> <<>>, ok |-> FALSE]

\* The bytes cbor::to_writer emits for a plain content value: the header of
\* a definite-length map or array, then the items.
CborEmit(v) ==
    LET body == CborItems(v.items)
        head == (IF v.kind = "map" THEN 160 ELSE 128) + Len(v.items)
    IN  [bytes |-> <<head>> \o body.bytes, ok |-> body.ok]

----------------------------------------------------------------------------
(* The writer.                                                             *)

\* Write::write_all(bs) on sink s.  The bytes that fit are taken.  When not
\* all of them fit the writer refuses: s.intr times with Interrupted, after
\* each of which write_all calls write again, and then either with its own
\* error s.err, which write_all returns, or (s.err = "none") no more, so
\* that the rest is taken and write_all returns Ok.
SinkWrite(s, bs) ==
    IF ~s.limited \/ Len(bs) <= s.room
    THEN [s  |-> [s EXCEPT !.bytes = @ \o bs,
                           !.room  = IF s.limited THEN @ - Len(bs) ELSE @],
          ok |-> TRUE]
    ELSE IF s.err = "none"
    THEN [s  |-> [s EXCEPT !.bytes    = @ \o bs,
                           !.limited  = FALSE,
                           !.room     = 0,
                           !.refusals = @ + s.intr,
                           !.intr     = 0],
          ok |-> TRUE]
    ELSE [s  |-> [s EXCEPT !.bytes    = @ \o SubSeq(bs, 1, s.room),
                           !.room     = 0,
                           !.refusals = @ + s.intr,
                           !.intr     = 0,
                           !.rejected = TRUE],
          ok |-> FALSE]

----------------------------------------------------------------------------
(* Results.                                                                *)

NoCbor == [kind |-> "", io |-> ""]

Pending == [kind |-> "Pending", io |-> "", cbor |-> NoCbor]

OkResult == [kind |-> "Ok", io |-> "", cbor |-> NoCbor]

\* EncodeCborError: the writer's io error, or a value that is not encodable
CborIo(e) == [kind |-> "Io", io |-> e]

CborInvalid == [kind |-> "InvalidFloat", io |-> ""]

\* From<io::Error> for EncodeClmrError (lines 18-22)

FromIo(e) == [kind |-> "Io", io |-> e, cbor |-> NoCbor]

\* Faulty variant of FromCbor: the serializer's error reported as an io error.
FromCborAsIo(c) == [kind |-> "Io", io |-> c.io, cbor |-> NoCbor]

\* From<cbor::EncodeCborError> for EncodeClmrError (lines 24-28)

FromCbor(c) == [kind |-> "Content", io |-> "", cbor |-> c]

----------------------------------------------------------------------------
(* Message.                                                                *)

\* Message::is_encrypted
IsEncrypted(m) == m.content.variant = "Encrypted"

FlagPrevious == 4

FlagSwapped == 2

FlagEncrypted == 1

\* u8 bitwise or
RECURSIVE BitOr(_, _)
BitOr(a, b) ==
    IF a = 0 /\ b = 0 THEN 0
    ELSE (IF a % 2 = 1 \/ b % 2 = 1 THEN 1 ELSE 0) + 2 * BitOr(a \div 2, b \div 2)

Bit(b, mask) == (b \div mask) % 2 = 1

\* Faulty variant of Flags: the previous bit never set.
FlagsNoPrevious(m) ==
    LET f1 == IF m.swapped THEN BitOr(0, FlagSwapped) ELSE 0
    IN  IF IsEncrypted(m) THEN BitOr(f1, FlagEncrypted) ELSE f1

\* lines 36-45: the flags byte
Flags(m) ==
    LET f0 == IF m.previous # <<>> THEN BitOr(0, FlagPrevious) ELSE 0
        f1 == IF m.swapped THEN BitOr(f0, FlagSwapped) ELSE f0
    IN  IF IsEncrypted(m) THEN BitOr(f1, FlagEncrypted) ELSE f1

----------------------------------------------------------------------------
(* to_clmr, statement by statement.  Each operator maps the frame c and    *)
(* the writer s to the frame and writer after the statement.               *)

\* Faulty variant of WriteThen: the result of the write dropped (no "?").
WriteThenIgnoreError(c, s, field, bs, next) ==
    LET w == SinkWrite(s, bs)
    IN  [c |-> [c EXCEPT !.calls = Append(@, field), !.pc = next],
         s |-> w.s]

\* "expr?" on a write of bs: note the call, write, and either go on to the
\* next statement or return the converted io error.
WriteThen(c, s, field, bs, next) ==
    LET w == SinkWrite(s, bs)
    IN  [c |-> [c EXCEPT !.calls  = Append(@, field),
                         !.pc     = IF w.ok THEN next ELSE "returned",
                         !.result = IF w.ok THEN @ ELSE FromIo(s.err)],
         s |-> w.s]

\* lines 36-47
DoFlags(c, s) ==
    LET flags == Flags(c.msg)
    IN  WriteThen([c EXCEPT !.flags = flags], s, "flags", <<flags>>, "author")

\* line 50
DoAuthor(c, s) ==
    WriteThen(c, s, "author", ToCompact(c.msg.author), "sequence")

\* line 53
DoSequence(c, s) ==
    WriteThen(c, s, "sequence", Varu64(c.msg.sequence), "timestamp")

\* lines 56-58
DoTimestamp(c, s, target) ==
    WriteThen(c, s, "timestamp", TimestampBytes(c.msg.timestamp, target), "previous")

\* Faulty variant of DoPrevious: an absent previous written as a zero byte.
DoPreviousAlways(c, s) ==
    WriteThen(c, s, "previous",
              IF c.msg.previous = <<>> THEN <<0>> ELSE ToCompact(c.msg.previous[1]),
              "content")

\* lines 60-63
DoPrevious(c, s) ==
    IF c.msg.previous # <<>>
    THEN WriteThen(c, s, "previous", ToCompact(c.msg.previous[1]), "content")
    ELSE [c |-> [c EXCEPT !.pc = "content"], s |-> s]

\* cbor::to_writer(w, t): the emitted bytes go to the writer; the writer's
\* rejection comes back as the serializer's io error, a value that cannot be
\* encoded as the serializer's own error.
CborToWriter(s, t) ==
    LET e == CborEmit(t)
        w == SinkWrite(s, e.bytes)
    IN  [s   |-> w.s,
         ok  |-> w.ok /\ e.ok,
         err |-> IF ~w.ok THEN CborIo(s.err) ELSE CborInvalid]

\* Faulty variant of DoContent: the two arms of the match exchanged.
DoContentSwapped(c, s) ==
    IF c.msg.content.variant = "Plain"
    THEN WriteThen(c, s, "content:compact", ToCompact(c.msg.content.box), "signature")
    ELSE LET r == CborToWriter(s, c.msg.content.plain)
         IN  [c |-> [c EXCEPT !.calls  = Append(@, "content:cbor"),
                              !.pc     = IF r.ok THEN "signature" ELSE "returned",
                              !.result = IF r.ok THEN @ ELSE FromCbor(r.err)],
              s |-> r.s]

\* lines 65-74
DoContent(c, s) ==
    IF c.msg.content.variant = "Encrypted"
    THEN WriteThen(c, s, "content:compact", ToCompact(c.msg.content.box), "signature")
    ELSE LET r == CborToWriter(s, c.msg.content.plain)
         IN  [c |-> [c EXCEPT !.calls  = Append(@, "content:cbor"),
                              !.pc     = IF r.ok THEN "signature" ELSE "returned",
                              !.result = IF r.ok THEN @ ELSE FromCbor(r.err)],
              s |-> r.s]

\* Faulty variant of DoSignature: Ok returned without writing the signature.
DoSignatureSkipped(c, s) ==
    [c |-> [c EXCEPT !.pc = "returned", !.result = OkResult], s |-> s]

\* lines 76-79
DoSignature(c, s) ==
    LET r == WriteThen(c, s, "signature", ToCompact(c.msg.signature), "returned")
    IN  [r EXCEPT !.c.result = IF @ = Pending THEN OkResult ELSE @]

\* line 85
VecWithCapacity ==
    [bytes |-> <<>>, limited |-> FALSE, room |-> 0, intr |-> 0, err |-> "none",
     refusals |-> 0, rejected |-> FALSE]

\* Faulty variant of VecResult: the buffer returned whatever to_clmr returned.
VecResultAlwaysOk(c, out) == [kind |-> "Ok", buf |-> out.bytes, err |-> OkResult]

\* lines 86-87: "to_clmr(msg, &mut out)?; Ok(out)"
VecResult(c, out) ==
    IF c.result = OkResult
    THEN [kind |-> "Ok", buf |-> out.bytes, err |-> OkResult]
    ELSE [kind |-> "Err", buf |-> <<>>, err |-> c.result]

\* Whether bs is well-formed UTF-8 (std::str::from_utf8 would accept it).
RECURSIVE IsUtf8(_)
IsUtf8(bs) ==
    IF bs = <<>> THEN TRUE
    ELSE LET b == bs[1]
             n == IF b < 128 THEN 1
                  ELSE IF b \in 194..223 THEN 2
                  ELSE IF b \in 224..239 THEN 3
                  ELSE IF b \in 240..244 THEN 4
                  ELSE 0
             lo == IF b = 224 THEN 160 ELSE IF b = 240 THEN 144 ELSE 128
             hi == IF b = 237 THEN 159 ELSE IF b = 244 THEN 143 ELSE 191
         IN  /\ n >= 1
             /\ Len(bs) >= n
             /\ n >= 2 => bs[2] \in lo..hi
             /\ \A i \in 3..n : bs[i] \in 128..191
             /\ IsUtf8(SubSeq(bs, n + 1, Len(bs)))

\* lines 92-94: what to_clmr_string can return for the result r of
\* to_clmr_vec.  from_utf8_unchecked on bytes that are not UTF-8 is undefined
\* behaviour: the String holding those bytes as they are, or anything else.
StringResults(r) ==
    IF r.kind = "Err"
    THEN {[kind |-> "Err", bytes |-> <<>>, utf8 |-> TRUE, err |-> r.err]}
    ELSE IF IsUtf8(r.buf)
    THEN {[kind |-> "Ok", bytes |-> r.buf, utf8 |-> TRUE, err |-> OkResult]}
    ELSE {[kind |-> "Ok", bytes |-> r.buf, utf8 |-> FALSE, err |-> OkResult],
          [kind |-> "Undefined", bytes |-> <<>>, utf8 |-> FALSE, err |-> OkResult]}

\* Faulty variant of SinkOf: every call writes through the same writer.
SinkOfShared(p) == 1

\* The writer a call writes through: its own ("w: &mut W" is exclusive).

SinkOf(p) == p

----------------------------------------------------------------------------
(* Inputs.                                                                 *)

Material(base) == [i \in 1..KeyLen |-> base + i]

Author == [tag |-> 0, data |-> Material(16)]

PreviousHash == [tag |-> 1, data |-> Material(32)]

Signature == [tag |-> 2, data |-> Material(48)]

Box == [tag |-> 3, data |-> Material(64)]

\* 0.0, -1.5, the least subnormal, and 1571140551543.0
Timestamps ==
    { [neg |-> FALSE, exp |-> 0,    frac |-> <<0, 0, 0, 0>>],
      [neg |-> TRUE,  exp |-> 1023, frac |-> <<8, 0, 0, 0>>],
      [neg |-> FALSE, exp |-> 0,    frac |-> <<0, 0, 0, 1>>],
      [neg |-> FALSE, exp |-> 1063, frac |-> <<6, 56564, 25655, 28672>>] }

Sequences == {1, 248, 65536}

PlainValues ==
    { [kind |-> "map",   items |-> <<>>],
      [kind |-> "array", items |-> <<"true", "null">>],
      [kind |-> "array", items |-> <<"false", "nan", "null">>] }

Contents ==
    { [variant |-> "Encrypted", plain |-> [kind |-> "map", items |-> <<>>], box |-> Box] }
    \cup { [variant |-> "Plain", plain |-> v, box |-> [tag |-> 0, data |-> <<>>]] :
             v \in PlainValues }

MessagesOver(seqs, tss) ==
    [ author    : {Author},
      sequence  : seqs,
      timestamp : tss,
      previous  : {<<>>, <<PreviousHash>>},
      swapped   : BOOLEAN,
      content   : Contents,
      signature : {Signature} ]

Messages == MessagesOver(Sequences, Timestamps)

SinkErrors == {"WriteZero", "BrokenPipe"}

\* Every byte to_clmr hands to an unbounded writer for m (for a content that
\* cannot be encoded: the bytes up to the failure, then nothing).
Attempt(m, target) ==
    <<Flags(m)>> \o ToCompact(m.author) \o Varu64(m.sequence)
      \o TimestampBytes(m.timestamp, target)
      \o (IF m.previous = <<>> THEN <<>> ELSE ToCompact(m.previous[1]))
      \o (IF m.content.variant = "Encrypted"
          THEN ToCompact(m.content.box) \o ToCompact(m.signature)
          ELSE IF CborEmit(m.content.plain).ok
          THEN CborEmit(m.content.plain).bytes \o ToCompact(m.signature)
          ELSE CborEmit(m.content.plain).bytes)

\* How a writer refuses once its room is used up: at once with its own
\* error, or some times with Interrupted and then no more or with its error.
Refusals ==
    [intr : {0}, err : SinkErrors]
    \cup [intr : 1..MaxInterrupts, err : {"none", "BrokenPipe"}]

\* The writers a caller may pass for m: an unbounded one, or one that takes
\* n more bytes before it refuses, for every n up to the length of all that
\* the call hands to it.
SinksFor(m, target) ==
    { [bytes |-> b, limited |-> TRUE, room |-> n, intr |-> r.intr, err |-> r.err,
       refusals |-> 0, rejected |-> FALSE] :
        b \in {<<>>, <<170>>}, n \in 0..Len(Attempt(m, target)), r \in Refusals }
    \cup { [VecWithCapacity EXCEPT !.bytes = b] : b \in {<<>>, <<170>>} }

Frame(mode, m) ==
    [ pc     |-> IF mode = "writer" THEN "flags" ELSE "vec_new",
      mode   |-> mode,
      msg    |-> m,
      flags  |-> 0,
      calls  |-> <<>>,
      result |-> Pending,
      ret    |-> [kind |-> "None", buf |-> <<>>, err |-> Pending],
      str    |-> [kind |-> "None", bytes |-> <<>>, utf8 |-> TRUE, err |-> Pending] ]

Idle == [Frame("writer", CHOOSE m \in Messages : TRUE) EXCEPT !.pc = "idle"]

NoSink ==
    [bytes |-> <<>>, limited |-> TRUE, room |-> 0, intr |-> 0, err |-> "none",
     refusals |-> 0, rejected |-> FALSE]

----------------------------------------------------------------------------
(* The state machine.                                                      *)

\* One call, by process 1: to_clmr on a writer of the caller, to_clmr_vec or
\* to_clmr_string.
Init ==
    /\ endian \in {"little", "big"}
    /\ \E m \in Messages, mode \in {"writer", "vec", "string"} :
         \E s \in (IF mode = "writer" THEN SinksFor(m, endian) ELSE {NoSink}) :
            /\ call  = [p \in Procs |-> IF p = 1 THEN Frame(mode, m) ELSE Idle]
            /\ snk   = [i \in Procs |-> IF i = 1 THEN s ELSE NoSink]
            /\ entry = [p \in Procs |-> IF p = 1 THEN [msg |-> m, snk |-> s]
                                        ELSE [msg |-> Idle.msg, snk |-> NoSink]]

Apply(p, r) ==
    /\ call' = [call EXCEPT ![p] = r.c]
    /\ snk'  = [snk EXCEPT ![SinkOf(p)] = r.s]
    /\ UNCHANGED <<entry, endian>>

\* line 85: let mut out = Vec::with_capacity(256)
VecNew(p) ==
    /\ call[p].pc = "vec_new"
    /\ call' = [call EXCEPT ![p].pc = "flags"]
    /\ snk'  = [snk EXCEPT ![SinkOf(p)] = VecWithCapacity]
    /\ entry' = [entry EXCEPT ![p].snk = VecWithCapacity]
    /\ UNCHANGED endian

WriteFlags(p) ==
    /\ call[p].pc = "flags"
    /\ Apply(p, DoFlags(call[p], snk[SinkOf(p)]))

WriteAuthor(p) ==
    /\ call[p].pc = "author"
    /\ Apply(p, DoAuthor(call[p], snk[SinkOf(p)]))

WriteSequence(p) ==
    /\ call[p].pc = "sequence"
    /\ Apply(p, DoSequence(call[p], snk[SinkOf(p)]))

WriteTimestamp(p) ==
    /\ call[p].pc = "timestamp"
    /\ Apply(p, DoTimestamp(call[p], snk[SinkOf(p)], endian))

WritePrevious(p) ==
    /\ call[p].pc = "previous"
    /\ Apply(p, DoPrevious(call[p], snk[SinkOf(p)]))

WriteContent(p) ==
    /\ call[p].pc = "content"
    /\ Apply(p, DoContent(call[p], snk[SinkOf(p)]))

WriteSignature(p) ==
    /\ call[p].pc = "signature"
    /\ Apply(p, DoSignature(call[p], snk[SinkOf(p)]))

\* lines 86-87
VecReturn(p) ==
    /\ call[p].pc = "returned"
    /\ call[p].mode \in {"vec", "string"}
    /\ call' = [call EXCEPT ![p].pc = "vec_done",
                            ![p].ret = VecResult(call[p], snk[SinkOf(p)])]
    /\ UNCHANGED <<snk, entry, endian>>

\* lines 92-94: "Ok(unsafe { String::from_utf8_unchecked(to_clmr_vec(msg)?) })"
StringReturn(p) ==
    /\ call[p].pc = "vec_done"
    /\ call[p].mode = "string"
    /\ \E out \in StringResults(call[p].ret) :
          call' = [call EXCEPT ![p].pc = "string_done", ![p].str = out]
    /\ UNCHANGED <<snk, entry, endian>>

Next ==
    \/ VecNew(1)
    \/ WriteFlags(1)
    \/ WriteAuthor(1)
    \/ WriteSequence(1)
    \/ WriteTimestamp(1)
    \/ WritePrevious(1)
    \/ WriteContent(1)
    \/ WriteSignature(1)
    \/ VecReturn(1)
    \/ StringReturn(1)

Spec == Init /\ [][Next]_vars

----------------------------------------------------------------------------
(* Two concurrent calls of to_clmr, each on its own writer.                *)

\* to_clmr run from frame c on writer s to its return, with nothing else
\* running.
Step(c, s, target) ==
    CASE c.pc = "flags"     -> DoFlags(c, s)
      [] c.pc = "author"    -> DoAuthor(c, s)
      [] c.pc = "sequence"  -> DoSequence(c, s)
      [] c.pc = "timestamp" -> DoTimestamp(c, s, target)
      [] c.pc = "previous"  -> DoPrevious(c, s)
      [] c.pc = "content"   -> DoContent(c, s)
      [] c.pc = "signature" -> DoSignature(c, s)

RECURSIVE RunAlone(_, _, _)
RunAlone(c, s, target) ==
    IF c.pc = "returned" THEN [c |-> c, s |-> s]
    ELSE LET r == Step(c, s, target) IN RunAlone(r.c, r.s, target)

ConcMessages ==
    MessagesOver({248}, {[neg |-> TRUE, exp |-> 1023, frac |-> <<8, 0, 0, 0>>]})

\* Writer i of the concurrent calls: unbounded, or with room for every
\* fifth prefix of the encoding; writer 1 refuses with WriteZero, writer 2
\* once with Interrupted and then with BrokenPipe.
ConcSinksFor(i, m, target) ==
    { s \in SinksFor(m, target) :
        /\ s.bytes = <<>>
        /\ s.room % 5 = 0
        /\ s.limited =>
              IF i = 1 THEN s.intr = 0 /\ s.err = "WriteZero"
              ELSE s.intr = 1 /\ s.err = "BrokenPipe" }

InitConc ==
    /\ endian \in {"little", "big"}
    /\ \E m1 \in ConcMessages, m2 \in ConcMessages :
         \E s1 \in ConcSinksFor(1, m1, endian), s2 \in ConcSinksFor(2, m2, endian) :
            /\ call  = [p \in Procs |-> Frame("writer", IF p = 1 THEN m1 ELSE m2)]
            /\ snk   = [i \in Procs |-> IF i = 1 THEN s1 ELSE s2]
            /\ entry = [p \in Procs |-> IF p = 1 THEN [msg |-> m1, snk |-> s1]
                                        ELSE [msg |-> m2, snk |-> s2]]

NextConc ==
    \E p \in Procs :
        \/ WriteFlags(p)
        \/ WriteAuthor(p)
        \/ WriteSequence(p)
        \/ WriteTimestamp(p)
        \/ WritePrevious(p)
        \/ WriteContent(p)
        \/ WriteSignature(p)

SpecConc == InitConc /\ [][NextConc]_vars

----------------------------------------------------------------------------
(* Properties.                                                             *)

\* The bytes process p's call has put into its writer so far.
Written(p) ==
    SubSeq(snk[p].bytes, Len(entry[p].snk.bytes) + 1, Len(snk[p].bytes))

Last(s) == s[Len(s)]

Returned(p) == call[p].pc \in {"returned", "vec_done", "string_done"}

Failed(p) == call[p].result.kind \in {"Io", "Content"}

PreviousBytes(m) == IF m.previous = <<>> THEN <<>> ELSE ToCompact(m.previous[1])

ContentBytes(m) ==
    IF m.content.variant = "Encrypted" THEN ToCompact(m.content.box)
    ELSE CborEmit(m.content.plain).bytes

\* The fields written before the previous field, with the flags byte b.
Upto4(m, b) ==
    <<b>> \o ToCompact(m.author) \o Varu64(m.sequence)
      \o BytesMSB(ToBits(m.timestamp))

\* The calls to_clmr makes for m on a writer that never fails, in order.
FieldOrder(m) ==
    <<"flags", "author", "sequence", "timestamp">>
      \o (IF m.previous = <<>> THEN <<>> ELSE <<"previous">>)
      \o <<IF m.content.variant = "Encrypted" THEN "content:compact" ELSE "content:cbor">>
      \o <<"signature">>

\* The bytes the named field of m consists of (for a content that cannot be
\* encoded: the bytes the serializer emits before it gives up).
FieldBytes(m, field) ==
    CASE field = "flags"     -> <<(IF m.previous # <<>> THEN 4 ELSE 0)
                                   + (IF m.swapped THEN 2 ELSE 0)
                                   + (IF m.content.variant = "Encrypted" THEN 1 ELSE 0)>>
      [] field = "author"    -> ToCompact(m.author)
      [] field = "sequence"  -> Varu64(m.sequence)
      [] field = "timestamp" -> BytesMSB(ToBits(m.timestamp))
      [] field = "previous"  -> PreviousBytes(m)
      [] field = "signature" -> ToCompact(m.signature)
      [] OTHER               -> ContentBytes(m)

FieldsBytes(m, fields) == Concat([i \in 1..Len(fields) |-> FieldBytes(m, fields[i])])

\* C1: after a successful to_clmr the writer holds what it held before,
\* followed by exactly flags, author, sequence, eight timestamp bytes,
\* previous (only when present), content and signature, in this order; the
\* number of bytes written is the sum of the fields' lengths, and the
\* signature is written whatever the flags are.
C1_Layout ==
    \A p \in Procs :
        call[p].result = OkResult =>
            LET m == call[p].msg
                w == Written(p)
            IN  /\ snk[p].bytes = entry[p].snk.bytes \o w
                /\ w = <<w[1]>> \o ToCompact(m.author) \o Varu64(m.sequence)
                         \o BytesMSB(ToBits(m.timestamp)) \o PreviousBytes(m)
                         \o ContentBytes(m) \o ToCompact(m.signature)
                /\ w[1] = FieldBytes(m, "flags")[1]
                /\ Len(w) = 1 + Len(ToCompact(m.author)) + Len(Varu64(m.sequence)) + 8
                              + (IF m.previous = <<>> THEN 0
                                 ELSE Len(ToCompact(m.previous[1])))
                              + Len(ContentBytes(m)) + Len(ToCompact(m.signature))
                /\ call[p].calls = FieldOrder(m)

C1_Witness ==
    /\ call[1].pc = "returned"
    /\ call[1].result = OkResult
    /\ call[1].msg.previous # <<>>
    /\ call[1].msg.content.variant = "Plain"
    /\ call[1].msg.sequence = 65536
    /\ snk[1].limited
    /\ entry[1].snk.bytes # <<>>

\* C2: the first byte to_clmr writes is the flags byte: bit 2 iff previous
\* is present, bit 1 iff swapped, bit 0 iff the message is encrypted, bits 3
\* to 7 clear.
C2_FlagsByte ==
    \A p \in Procs :
        call[p].calls # <<>> /\ Len(Written(p)) >= 1 =>
            LET m == call[p].msg
                b == Written(p)[1]
            IN  /\ call[p].calls[1] = "flags"
                /\ Bit(b, 4) <=> (m.previous # <<>>)
                /\ Bit(b, 2) <=> m.swapped
                /\ Bit(b, 1) <=> IsEncrypted(m)
                /\ b \in 0..7

C2_Witness ==
    /\ call[1].pc = "author"
    /\ Written(1) = <<5>>
    /\ call[1].msg.previous # <<>>
    /\ ~call[1].msg.swapped

\* C3: the encrypted flag and the content encoding agree: is_encrypted() iff
\* bit 0 of the flags byte is set iff the content is written by the compact
\* ciphertext encoding; bit 0 is clear iff it is written by the cbor
\* encoding; and the content bytes are those of the encoding chosen.
C3_EncryptedAgrees ==
    \A p \in Procs :
        (\E i \in 1..Len(call[p].calls) :
            call[p].calls[i] \in {"content:compact", "content:cbor"}) =>
            LET m == call[p].msg
                w == Written(p)
                bit0 == Bit(w[1], 1)
                before == Len(Upto4(m, w[1]) \o PreviousBytes(m))
            IN  /\ IsEncrypted(m) <=> bit0
                /\ bit0 <=> (\E i \in 1..Len(call[p].calls) :
                                call[p].calls[i] = "content:compact")
                /\ ~bit0 <=> (\E i \in 1..Len(call[p].calls) :
                                call[p].calls[i] = "content:cbor")
                /\ call[p].pc = "signature" =>
                      SubSeq(w, before + 1, Len(w))
                        = IF bit0 THEN ToCompact(m.content.box)
                          ELSE CborEmit(m.content.plain).bytes

C3_Witness ==
    /\ call[1].pc = "signature"
    /\ Last(call[1].calls) = "content:compact"
    /\ Bit(Written(1)[1], 1)

\* C4: previous and bit 2 agree: without previous, bit 2 is clear and
\* nothing is written between the timestamp and the content; with previous
\* = Some(h), bit 2 is set and the bytes right after the eight timestamp
\* bytes are the compact encoding of h.
C4_PreviousAgrees ==
    \A p \in Procs :
        LET m == call[p].msg
            w == Written(p)
        IN  /\ m.previous = <<>> =>
                 \A i \in 1..Len(call[p].calls) : call[p].calls[i] # "previous"
            /\ call[p].pc = "content" =>
                 /\ Bit(w[1], 4) <=> (m.previous # <<>>)
                 /\ w = Upto4(m, w[1])
                          \o (IF m.previous = <<>> THEN <<>>
                              ELSE ToCompact(m.previous[1]))
            /\ call[p].pc = "signature" /\ m.previous = <<>> =>
                 w = Upto4(m, w[1]) \o ContentBytes(m)

C4_Witness ==
    /\ call[1].pc = "content"
    /\ call[1].msg.previous # <<>>
    /\ Bit(Written(1)[1], 4)
    /\ Last(call[1].calls) = "previous"

\* C5: whichever field is being written when the writer rejects a write
\* (write_all returns its error), to_clmr returns the io error kind wrapping
\* the writer's own error, never the content-encoding kind and never success.
C5_AlwaysIoKind ==
    \A p \in Procs :
        snk[p].rejected =>
            /\ Returned(p)
            /\ call[p].result.kind = "Io"
            /\ call[p].result.io = snk[p].err

\* C6: to_clmr is fail-fast: once the write of a field fails the call
\* returns an error; no field is tried twice and none after the failing
\* one; nothing is rolled back, so the writer holds what it held before,
\* then every earlier field in full, then a part of the failing field, which
\* is a proper prefix of all that the call set out to write.  While nothing
\* has failed every field tried is there in full.
C6_FailFast ==
    \A p \in Procs :
        LET m == call[p].msg
            w == Written(p)
            n == Len(call[p].calls)
        IN  /\ snk[p].rejected => Returned(p) /\ Failed(p)
            /\ ~Failed(p) =>
                 /\ ~snk[p].rejected
                 /\ w = FieldsBytes(m, call[p].calls)
            /\ Failed(p) =>
                 /\ Returned(p)
                 /\ n >= 1
                 /\ call[p].calls = SubSeq(FieldOrder(m), 1, n)
                 /\ snk[p].bytes = entry[p].snk.bytes \o w
                 /\ \E k \in 0..Len(FieldBytes(m, call[p].calls[n])) :
                       /\ w = FieldsBytes(m, SubSeq(call[p].calls, 1, n - 1))
                                \o SubSeq(FieldBytes(m, call[p].calls[n]), 1, k)
                       /\ snk[p].rejected =>
                            k < Len(FieldBytes(m, call[p].calls[n]))
                 /\ IsPrefix(w, FieldsBytes(m, FieldOrder(m)))
                 /\ Len(w) < Len(FieldsBytes(m, FieldOrder(m)))

C6_Witness ==
    /\ call[1].pc = "returned"
    /\ call[1].result.kind = "Io"
    /\ snk[1].refusals = 1
    /\ Last(call[1].calls) = "previous"
    /\ Len(Written(1)) = Len(Upto4(call[1].msg, 0)) + 1
    /\ entry[1].snk.bytes # <<>>

\* C7: when the content is plain and its cbor encoding fails, to_clmr
\* returns the content-encoding error kind wrapping the serializer's error,
\* never writes the signature and writes no substitute content; with an
\* encrypted content it never returns the content-encoding error kind.
C7_ContentFailure ==
    \A p \in Procs :
        LET m == call[p].msg
            w == Written(p)
            before == Len(Upto4(m, 0) \o PreviousBytes(m))
            attempted == \E i \in 1..Len(call[p].calls) :
                            call[p].calls[i] = "content:cbor"
        IN  /\ /\ m.content.variant = "Plain"
               /\ attempted
               /\ \/ snk[p].rejected /\ Last(call[p].calls) = "content:cbor"
                  \/ ~CborEmit(m.content.plain).ok
               => /\ Returned(p)
                  /\ call[p].result.kind = "Content"
                  /\ call[p].result.cbor =
                       IF snk[p].rejected THEN CborIo(snk[p].err) ELSE CborInvalid
                  /\ \A i \in 1..Len(call[p].calls) : call[p].calls[i] # "signature"
                  /\ IsPrefix(SubSeq(w, before + 1, Len(w)),
                              CborEmit(m.content.plain).bytes)
            /\ m.content.variant = "Encrypted" => call[p].result.kind # "Content"

C7_Witness ==
    /\ call[1].pc = "returned"
    /\ call[1].result = FromCbor(CborInvalid)
    /\ ~snk[1].rejected
    /\ call[1].msg.content.plain.items = <<"false", "nan", "null">>
    /\ Len(Written(1)) = Len(Upto4(call[1].msg, 0) \o PreviousBytes(call[1].msg)) + 2

\* C8: the timestamp field is exactly eight bytes, the IEEE-754 bit pattern
\* of the timestamp with the most significant byte first; read back as a
\* big-endian 64-bit integer they give the bit pattern again.
C8_Timestamp ==
    \A p \in Procs :
        call[p].pc = "previous" =>
            LET m == call[p].msg
                w == Written(p)
                start == 1 + Len(ToCompact(m.author)) + Len(Varu64(m.sequence))
                field == SubSeq(w, start + 1, Len(w))
            IN  /\ Len(w) = start + 8
                /\ field = BytesMSB(ToBits(m.timestamp))
                /\ FromBytesMSB(field) = ToBits(m.timestamp)
                /\ field[1] = (IF m.timestamp.neg THEN 128 ELSE 0)
                                + m.timestamp.exp \div 16

C8_Witness ==
    /\ call[1].pc = "previous"
    /\ endian = "little"
    /\ call[1].msg.timestamp.neg
    /\ SubSeq(Written(1), Len(Written(1)) - 7, Len(Written(1)))
         = <<191, 248, 0, 0, 0, 0, 0, 0>>

\* C9: to_clmr_vec returns Ok with exactly the bytes to_clmr writes for the
\* message to an empty writer, or the error to_clmr returned and no buffer;
\* never a partial encoding as a success.
C9_Vec ==
    \A p \in Procs :
        call[p].pc = "vec_done" =>
            LET m == call[p].msg
                alone == RunAlone(Frame("writer", m), VecWithCapacity, endian)
            IN  IF call[p].ret.kind = "Ok"
                THEN /\ alone.c.result = OkResult
                     /\ call[p].ret.buf = alone.s.bytes
                     /\ call[p].ret.buf = FieldsBytes(m, FieldOrder(m))
                     /\ CborEmit(m.content.plain).ok
                ELSE /\ call[p].ret.kind = "Err"
                     /\ call[p].ret.buf = <<>>
                     /\ call[p].ret.err = call[p].result
                     /\ call[p].ret.err = alone.c.result
                     /\ Failed(p)

C9_Witness ==
    /\ call[1].pc = "vec_done"
    /\ call[1].ret.kind = "Ok"
    /\ Len(call[1].ret.buf) = Len(FieldsBytes(call[1].msg, FieldOrder(call[1].msg)))
    /\ call[1].msg.content.variant = "Plain"

\* C10: two concurrent calls, each on its own writer, are independent:
\* under every interleaving of their field writes each writer ends with the
\* bytes, and each call with the result, of the call run alone, and no call
\* changes its message.
C10_Independent ==
    \A p \in Procs :
        /\ call[p].msg = entry[p].msg
        /\ call[p].pc = "returned" =>
             LET alone == RunAlone(Frame("writer", entry[p].msg), entry[p].snk, endian)
             IN  /\ snk[p] = alone.s
                 /\ call[p].result = alone.c.result
                 /\ call[p].calls = alone.c.calls

C10_Witness ==
    /\ call[1].pc = "returned"
    /\ call[2].pc = "returned"
    /\ call[1].msg = call[2].msg
    /\ call[1].result = OkResult
    /\ call[2].result.kind = "Io"
    /\ snk[2].bytes # <<>>

====
